---- MODULE Spec2Model ----
(***************************************************************************)
(* Model of moxfield_to_forge.py: the line parser (parse_moxfield_text),   *)
(* the structured-parse attempt (parse_moxfield_deck), the classifier and  *)
(* serializer (convert_to_forge_format) and the two entry points (main and *)
(* convert_moxfield_to_forge).                                             *)
(*                                                                         *)
(* Text is modelled at character level: a string is a sequence of          *)
(* one-character strings, so that strip, split, lower, the two regular     *)
(* expressions, int(), str() and join are computed, not assumed.           *)
(***************************************************************************)
EXTENDS Integers, Sequences, FiniteSets, TLC

(***************************************************************************)
(* Bounds                                                                  *)
(***************************************************************************)
\* Largest number of lines of an input file.
MaxLines == 3

(***************************************************************************)
(* Characters and strings                                                  *)
(***************************************************************************)
Digits == <<"0","1","2","3","4","5","6","7","8","9">>

UpperCase == <<"A","B","C","D","E","F","G","H","I","J","K","L","M",
               "N","O","P","Q","R","S","T","U","V","W","X","Y","Z">>

LowerCase == <<"a","b","c","d","e","f","g","h","i","j","k","l","m",
               "n","o","p","q","r","s","t","u","v","w","x","y","z">>

NL == "\n"

IsDigit(c) == \E i \in 1..10 : Digits[i] = c

IsSpace(c) == c \in {" ", "\t", "\n", "\r"}

DigitVal(c) == (CHOOSE i \in 1..10 : Digits[i] = c) - 1

\* str.lower() on one character
LowerChar(c) ==
    IF \E i \in 1..26 : UpperCase[i] = c
    THEN LowerCase[CHOOSE i \in 1..26 : UpperCase[i] = c]
    ELSE c

\* str.lower()
Lower(s) == [i \in 1..Len(s) |-> LowerChar(s[i])]

\* int() of a string of decimal digits
RECURSIVE StrToInt(_)
StrToInt(s) ==
    IF s = <<>> THEN 0
    ELSE 10 * StrToInt(SubSeq(s, 1, Len(s) - 1)) + DigitVal(s[Len(s)])

\* str() of a non-negative integer, as the f-string formats a quantity
RECURSIVE IntToStr(_)
IntToStr(n) ==
    IF n < 10 THEN <<Digits[n + 1]>>
    ELSE IntToStr(n \div 10) \o <<Digits[(n % 10) + 1]>>

\* smallest index >= i of a non-whitespace character, Len(s)+1 if none
FirstNonSpace(s, i) ==
    LET C == {t \in i..Len(s) : ~IsSpace(s[t])}
    IN  IF C = {} THEN Len(s) + 1 ELSE CHOOSE t \in C : \A v \in C : t <= v

\* largest index of a non-whitespace character, 0 if none
LastNonSpace(s) ==
    LET C == {t \in 1..Len(s) : ~IsSpace(s[t])}
    IN  IF C = {} THEN 0 ELSE CHOOSE t \in C : \A v \in C : t >= v

\* str.strip()
Strip(s) == SubSeq(s, FirstNonSpace(s, 1), LastNonSpace(s))

\* str.startswith(p)
StartsWith(s, p) == Len(s) >= Len(p) /\ SubSeq(s, 1, Len(p)) = p

\* str.split('\n'): the pieces between consecutive newlines
SplitLines(s) ==
    LET P      == {t \in 1..Len(s) : s[t] = NL}
        Nth(i) == IF i = 0 THEN 0
                  ELSE IF i > Cardinality(P) THEN Len(s) + 1
                  ELSE CHOOSE t \in P : Cardinality({u \in P : u < t}) = i - 1
    IN  [i \in 1..(Cardinality(P) + 1) |-> SubSeq(s, Nth(i - 1) + 1, Nth(i) - 1)]

\* '\n'.join(list)
RECURSIVE JoinLines(_)
JoinLines(l) ==
    IF l = <<>> THEN <<>>
    ELSE IF Len(l) = 1 THEN l[1]
    ELSE l[1] \o <<NL>> \o JoinLines(Tail(l))

(***************************************************************************)
(* String constants of the program                                         *)
(***************************************************************************)
basic_lands ==
    { <<"P","l","a","i","n","s">>, <<"I","s","l","a","n","d">>,
      <<"S","w","a","m","p">>, <<"M","o","u","n","t","a","i","n">>,
      <<"F","o","r","e","s","t">> }

sideboard_markers ==
    { <<"s","i","d","e","b","o","a","r","d">>,
      <<"s","i","d","e"," ","b","o","a","r","d">> }

CommentPrefix == <<"/","/">>

MetadataHeader == <<"[","m","e","t","a","d","a","t","a","]">>

NamePrefix == <<"N","a","m","e","=">>

DefaultDeckName == <<"C","o","n","v","e","r","t","e","d"," ","D","e","c","k">>

CommanderHeader == <<"[","C","o","m","m","a","n","d","e","r","]">>

MainHeader == <<"[","M","a","i","n","]">>

SideboardHeader == <<"[","S","i","d","e","b","o","a","r","d","]">>

\* Deck size that triggers Commander detection.
CommanderDeckSize == 100

(***************************************************************************)
(* The two card-line patterns of parse_moxfield_text                       *)
(***************************************************************************)
\* length of the longest prefix of digits: (\d+) followed by \s cannot give
\* a digit back
DigitPrefixLen(s) ==
    LET C == {t \in 1..Len(s) : ~IsDigit(s[t])}
    IN  IF C = {} THEN Len(s) ELSE (CHOOSE t \in C : \A v \in C : t <= v) - 1

\* index of the first ")" after position t, 0 if none
FirstClose(s, t) ==
    LET C == {u \in (t + 1)..Len(s) : s[u] = ")"}
    IN  IF C = {} THEN 0 ELSE CHOOSE u \in C : \A v \in C : u <= v

\* \s*\(([^)]+)\) matches at position e: optional whitespace, "(", at least
\* one character other than ")", then ")"
ParenAt(s, e) ==
    LET t == FirstNonSpace(s, e)
    IN  /\ t <= Len(s)
        /\ s[t] = "("
        /\ FirstClose(s, t) > t + 1

\* end positions (exclusive) of the name group (.+?) that starts at b
NameEnds(s, b) == {e \in (b + 1)..Len(s) : ParenAt(s, e)}

\* smallest index >= i of a whitespace character, Len(s)+1 if none
FirstSpace(s, i) ==
    LET C == {t \in i..Len(s) : IsSpace(s[t])}
    IN  IF C = {} THEN Len(s) + 1 ELSE CHOOSE t \in C : \A v \in C : t <= v

NoMatch == [matched |-> FALSE]

\* the groups of the full pattern: d digits, the name in b..e-1, "(" at t,
\* ")" at u, the collector token in p..q-1 and the markers after it.  The
\* tail \s*(\S*)\s*(.*?)$ matches any remainder.
FullGroups(s, d, b, e, t, u, p, q) ==
    [matched |-> TRUE,
     g1 |-> SubSeq(s, 1, d),
     g2 |-> SubSeq(s, b, e - 1),
     g3 |-> SubSeq(s, t + 1, u - 1),
     g4 |-> SubSeq(s, p, q - 1),
     g5 |-> SubSeq(s, FirstNonSpace(s, q), Len(s))]

FullAfterClose(s, d, b, e, t, u, p) ==
    FullGroups(s, d, b, e, t, u, p, FirstSpace(s, p))

FullAfterOpen(s, d, b, e, t) ==
    FullAfterClose(s, d, b, e, t, FirstClose(s, t),
                   FirstNonSpace(s, FirstClose(s, t) + 1))

\* (.+?) is lazy: the name ends at the first position the rest matches from
FullFromName(s, d, b, E) ==
    FullAfterOpen(s, d, b, CHOOSE x \in E : \A v \in E : x <= v,
                  FirstNonSpace(s, CHOOSE x \in E : \A v \in E : x <= v))

\* \s+ is greedy: of the J whitespace lengths that let the rest match, the
\* longest is taken
FullFromSpaces(s, d, J) ==
    IF J = {} THEN NoMatch
    ELSE FullFromName(s, d, d + (CHOOSE x \in J : \A v \in J : x >= v) + 1,
                      NameEnds(s, d + (CHOOSE x \in J : \A v \in J : x >= v) + 1))

FullFromDigits(s, d) ==
    IF d < 1 THEN NoMatch
    ELSE FullFromSpaces(s, d, {j \in 1..(FirstNonSpace(s, d + 1) - (d + 1)) :
                                  NameEnds(s, d + j + 1) # {}})

\* re.match(r'^(\d+)\s+(.+?)\s*\(([^)]+)\)\s*(\S*)\s*(.*?)$', line)
FullMatch(s) == FullFromDigits(s, DigitPrefixLen(s))

FallbackFromDigits(s, d) ==
    IF d < 1 \/ FirstNonSpace(s, d + 1) - (d + 1) < 1 \/ d + 2 > Len(s)
    THEN NoMatch
    ELSE [matched |-> TRUE,
          g1 |-> SubSeq(s, 1, d),
          g2 |-> SubSeq(s, FirstNonSpace(s, d + 1), Len(s))]

\* re.match(r'^(\d+)\s+(.+)$', line)
FallbackMatch(s) == FallbackFromDigits(s, DigitPrefixLen(s))

(***************************************************************************)
(* Input files                                                             *)
(***************************************************************************)
\* Lines an input file is made of: card lines with and without set
\* information, repeated names, a split card, promo and non-promo set codes,
\* both sideboard markers, a comment, a blank line and lines no pattern
\* matches.
SampleLines ==
    { <<"1"," ","S","o","l">>,
      <<"2"," ","S","o","l"," ","(","P","M","K","M",")"," ","7">>,
      <<"9","8"," ","F","o","r","e","s","t"," ","(","M","I","C","S",")">>,
      <<"1"," ","A"," ","/"," ","B"," ","(","P","L",")"," ","3"," ","*","F","*">>,
      <<"0"," ","F","o","r","e","s","t">>,
      <<"S","i","d","e","b","o","a","r","d">>,
      <<" ","S","i","d","e"," ","B","o","a","r","d">>,
      <<"/","/"," ","c">>,
      <<>>,
      <<"4","2">>,
      <<"n","u","l","l">> }

\* Values of the --name option ("" when the option is absent).
NameOptions == { <<>>, <<"D">> }

(***************************************************************************)
(* State                                                                   *)
(***************************************************************************)
VARIABLES
    entry,              \* entry point that runs: "main" or "lib"
    args_name,          \* args.name ("" until main reads it)
    pc,                 \* position of the run
    moxfield_data,      \* text read from the input file
    deck_type,          \* Python type of the value the parser returned
    deck,               \* the parsed deck (a dict)
    lines,              \* parse_moxfield_text: the list of lines
    idx,                \* parse_moxfield_text: index of the next line
    current_section,    \* parse_moxfield_text: the active group
    parsed,             \* history: the card lines matched so far
    forge_deck,         \* convert_to_forge_format: list of output lines
    is_commander_deck,  \* convert_to_forge_format: the classification
    output_file,        \* the output file
    stdout,             \* messages printed to standard output
    stderr,             \* messages printed to standard error
    raised,             \* exception that ended the run, "" if none
    exit_status         \* "running", "exit0", "exit1" or "returned"

vars == <<entry, args_name, pc, moxfield_data,
          deck_type, deck, lines, idx, current_section, parsed, forge_deck,
          is_commander_deck, output_file, stdout, stderr, raised, exit_status>>

inputVars == <<entry, args_name>>

parseVars == <<lines, idx, current_section, parsed>>

convertVars == <<forge_deck, is_commander_deck>>

ioVars == <<output_file, stdout, stderr, raised, exit_status>>

EmptyDeck == [mainboard |-> <<>>, sideboard |-> <<>>]

Init ==
    /\ entry \in {"main", "lib"}
    /\ args_name = <<>>
    /\ pc = "read"
    /\ moxfield_data = <<>>
    /\ deck_type = "none"
    /\ deck = EmptyDeck
    /\ lines = <<>>
    /\ idx = 1
    /\ current_section = "mainboard"
    /\ parsed = <<>>
    /\ forge_deck = <<>>
    /\ is_commander_deck = FALSE
    /\ output_file = [written |-> FALSE, content |-> <<>>]
    /\ stdout = <<>>
    /\ stderr = <<>>
    /\ raised = ""
    /\ exit_status = "running"

Msg(k, x, y) == [kind |-> k, a |-> x, b |-> y]

(***************************************************************************)
(* Exception handlers of the two entry points                              *)
(***************************************************************************)
\* Mutant of Except: the generic handler of main prints the error but does
\* not call sys.exit(1).
Except_GenericHandlerReturns(exc) ==
    LET m == IF exc = "FileNotFoundError" THEN Msg("error_not_found", 0, 0)
             ELSE Msg("error_conversion", 0, 0)
    IN  /\ raised' = exc
        /\ pc' = "done"
        /\ IF entry = "main"
           THEN /\ stderr' = Append(stderr, m)
                /\ exit_status' = IF exc = "FileNotFoundError" THEN "exit1"
                                  ELSE "exit0"
                /\ UNCHANGED stdout
           ELSE /\ stdout' = Append(stdout, m)
                /\ exit_status' = "returned"
                /\ UNCHANGED stderr

\* main: both handlers print to stderr and call sys.exit(1).
\* convert_moxfield_to_forge: both handlers print and the function returns.
Except(exc) ==
    LET m == IF exc = "FileNotFoundError" THEN Msg("error_not_found", 0, 0)
             ELSE Msg("error_conversion", 0, 0)
    IN  /\ raised' = exc
        /\ pc' = "done"
        /\ IF entry = "main"
           THEN /\ stderr' = Append(stderr, m)
                /\ exit_status' = "exit1"
                /\ UNCHANGED stdout
           ELSE /\ stdout' = Append(stdout, m)
                /\ exit_status' = "returned"
                /\ UNCHANGED stderr

(***************************************************************************)
(* Structured (JSON) input files                                           *)
(***************************************************************************)
\* The decks of the structured input files.  A group is the list of its
\* entries in document order, as the dict json.loads builds keeps them.
StructuredDecks ==
    << [mainboard |->
           << [name |-> <<"A"," ","/"," ">>,
               data |-> [quantity |-> 1, set |-> <<"P","M","K","M">>]] >>],
       [name |-> <<"E">>,
        mainboard |->
           << [name |-> <<"F","o","r","e","s","t">>,
               data |-> [quantity |-> 98, set |-> <<"M","I","C","S">>]],
              [name |-> <<"A"," ","/"," ","B">>,
               data |-> [quantity |-> 1]] >>,
        sideboard |->
           << [name |-> <<"S","o","l">>,
               data |-> [quantity |-> 1, set |-> <<"P","L">>,
                         collector_number |-> <<"7">>,
                         special_markers |-> <<"*","F","*">>]] >>],
       [sideboard |->
           << [name |-> <<"S","o","l">>,
               data |-> [set |-> <<"P","L">>]] >>] >>

\* sep.join(list)
RECURSIVE Join(_, _)
Join(l, sep) ==
    IF l = <<>> THEN <<>>
    ELSE IF Len(l) = 1 THEN l[1]
    ELSE l[1] \o sep \o Join(Tail(l), sep)

\* "key": value
JsonMember(key, value) == <<"\"">> \o key \o <<"\"", ":">> \o value

JsonString(s) == <<"\"">> \o s \o <<"\"">>

JsonObject(members) == <<"{">> \o Join(members, <<",">>) \o <<"}">>

\* the JSON text of the data of one card
JsonCardData(d) ==
    JsonObject(
        (IF "quantity" \in DOMAIN d
         THEN << JsonMember(<<"q","u","a","n","t","i","t","y">>,
                            IntToStr(d.quantity)) >>
         ELSE <<>>)
        \o (IF "set" \in DOMAIN d
            THEN << JsonMember(<<"s","e","t">>, JsonString(d.set)) >>
            ELSE <<>>)
        \o (IF "collector_number" \in DOMAIN d
            THEN << JsonMember(<<"c","o","l","l","e","c","t","o","r","_",
                                 "n","u","m","b","e","r">>,
                               JsonString(d.collector_number)) >>
            ELSE <<>>)
        \o (IF "special_markers" \in DOMAIN d
            THEN << JsonMember(<<"s","p","e","c","i","a","l","_",
                                 "m","a","r","k","e","r","s">>,
                               JsonString(d.special_markers)) >>
            ELSE <<>>))

\* the JSON text of a group: one member per card, keyed by the card name
JsonGroup(group) ==
    JsonObject([i \in 1..Len(group) |->
                   JsonMember(group[i].name, JsonCardData(group[i].data))])

\* the JSON text of a deck, as the input file holds it
JsonDeck(d) ==
    JsonObject(
        (IF "name" \in DOMAIN d
         THEN << JsonMember(<<"n","a","m","e">>, JsonString(d.name)) >>
         ELSE <<>>)
        \o (IF "mainboard" \in DOMAIN d
            THEN << JsonMember(<<"m","a","i","n","b","o","a","r","d">>,
                               JsonGroup(d.mainboard)) >>
            ELSE <<>>)
        \o (IF "sideboard" \in DOMAIN d
            THEN << JsonMember(<<"s","i","d","e","b","o","a","r","d">>,
                               JsonGroup(d.sideboard)) >>
            ELSE <<>>))

(***************************************************************************)
(* Reading the input file                                                  *)
(***************************************************************************)
\* open(input_file) and f.read(): the file is missing, the read fails for
\* another reason (OSError), or the text is read.  The text of an input file
\* is up to MaxLines lines of SampleLines joined by newlines, or the JSON
\* text of one of StructuredDecks.
ReadMissing ==
    /\ pc = "read"
    /\ Except("FileNotFoundError")
    /\ UNCHANGED <<inputVars, moxfield_data, deck_type, deck, parseVars,
                   convertVars, output_file>>

ReadFails ==
    /\ pc = "read"
    /\ Except("OSError")
    /\ UNCHANGED <<inputVars, moxfield_data, deck_type, deck, parseVars,
                   convertVars, output_file>>

ReadInput ==
    /\ pc = "read"
    /\ \E n \in 0..MaxLines :
          \E file_lines \in [1..n -> SampleLines] :
              moxfield_data' = JoinLines(file_lines)
    /\ pc' = "parse"
    /\ UNCHANGED <<inputVars, deck_type, deck, parseVars, convertVars, ioVars>>

ReadStructured ==
    /\ pc = "read"
    /\ \E i \in 1..Len(StructuredDecks) :
          moxfield_data' = JsonDeck(StructuredDecks[i])
    /\ pc' = "parse"
    /\ UNCHANGED <<inputVars, deck_type, deck, parseVars, convertVars, ioVars>>

(***************************************************************************)
(* parse_moxfield_deck: the structured-parse attempt                       *)
(***************************************************************************)
\* JSON integer: -?(0|[1-9][0-9]*)
IsJsonInt(s) ==
    LET body == IF s # <<>> /\ s[1] = "-" THEN Tail(s) ELSE s
    IN  /\ body # <<>>
        /\ \A i \in 1..Len(body) : IsDigit(body[i])
        /\ Len(body) > 1 => body[1] # "0"

\* the structured decks whose JSON text is s
DecksOf(s) == {i \in 1..Len(StructuredDecks) : JsonDeck(StructuredDecks[i]) = s}

\* json.loads(text): the Python type of the decoded value, or
\* "JSONDecodeError".  The characters of SampleLines include none of
\* { [ " . so the only documents an input text can hold are the object of a
\* structured deck, an integer and the literals null, true and false, with
\* whitespace around them.
JsonLoads(text) ==
    LET s == Strip(text)
    IN  IF DecksOf(s) # {} THEN "dict"
        ELSE IF s = <<"n","u","l","l">> THEN "NoneType"
        ELSE IF s = <<"t","r","u","e">> \/ s = <<"f","a","l","s","e">> THEN "bool"
        ELSE IF IsJsonInt(s) THEN "int"
        ELSE "JSONDecodeError"

\* where the run continues once the parser has returned
AfterParse == IF entry = "main" THEN "override" ELSE "convert"

\* the dict json.loads decodes from the text of a structured deck
JsonValue(text) == StructuredDecks[CHOOSE i \in DecksOf(Strip(text)) : TRUE]

\* json.loads succeeds: its value is returned as the deck, whatever it is
ParseJson ==
    /\ pc = "parse"
    /\ JsonLoads(moxfield_data) # "JSONDecodeError"
    /\ deck_type' = JsonLoads(moxfield_data)
    /\ deck' = IF JsonLoads(moxfield_data) = "dict"
               THEN JsonValue(moxfield_data)
               ELSE deck
    /\ pc' = AfterParse
    /\ UNCHANGED <<inputVars, moxfield_data, parseVars, convertVars, ioVars>>

(***************************************************************************)
(* parse_moxfield_text                                                     *)
(***************************************************************************)
\* json.loads fails: parse_moxfield_text starts
ParseTextStart ==
    /\ pc = "parse"
    /\ JsonLoads(moxfield_data) = "JSONDecodeError"
    /\ lines' = SplitLines(Strip(moxfield_data))
    /\ deck' = EmptyDeck
    /\ current_section' = "mainboard"
    /\ idx' = 1
    /\ pc' = "text"
    /\ UNCHANGED <<inputVars, moxfield_data, deck_type, parsed, convertVars, ioVars>>

\* not line or line.startswith('//')
IsSkipped(line) == line = <<>> \/ StartsWith(line, CommentPrefix)

\* Mutant of IsSideboardMarker: the comparison is case-sensitive.
IsSideboardMarker_CaseSensitive(line) == line \in sideboard_markers

\* line.lower() in ['sideboard', 'side board']
IsSideboardMarker(line) == Lower(line) \in sideboard_markers

\* position of card_name in a group, 0 if absent
IndexOf(group, card_name) ==
    LET C == {i \in 1..Len(group) : group[i].name = card_name}
    IN  IF C = {} THEN 0 ELSE CHOOSE i \in C : TRUE

\* Mutant of MergeCard: a repeated name takes the metadata of the latest line.
MergeCard_KeepsLastMetadata(group, card_name, quantity, card_data) ==
    LET i == IndexOf(group, card_name)
    IN  IF i # 0
        THEN [group EXCEPT ![i].data =
                 [card_data EXCEPT !.quantity = group[i].data.quantity + quantity]]
        ELSE Append(group, [name |-> card_name, data |-> card_data])

\* Mutant of MergeCard: a repeated name overwrites the quantity.
MergeCard_OverwritesQuantity(group, card_name, quantity, card_data) ==
    LET i == IndexOf(group, card_name)
    IN  IF i # 0
        THEN [group EXCEPT ![i].data.quantity = quantity]
        ELSE Append(group, [name |-> card_name, data |-> card_data])

\* if card_name in deck[section]: quantity += ... else: new entry
MergeCard(group, card_name, quantity, card_data) ==
    LET i == IndexOf(group, card_name)
    IN  IF i # 0
        THEN [group EXCEPT ![i].data.quantity = @ + quantity]
        ELSE Append(group, [name |-> card_name, data |-> card_data])

\* a match of the full pattern: quantity, name and the three metadata fields
FullCard(m) ==
    [matched |-> TRUE, pattern |-> "full",
     card_name |-> Strip(m.g2),
     quantity |-> StrToInt(m.g1),
     card_data |-> [quantity |-> StrToInt(m.g1),
                    set |-> Strip(m.g3),
                    collector_number |-> Strip(m.g4),
                    special_markers |-> Strip(m.g5)]]

\* a match of the fallback pattern: quantity and name only
FallbackCard(f) ==
    IF f.matched
    THEN [matched |-> TRUE, pattern |-> "fallback",
          card_name |-> Strip(f.g2),
          quantity |-> StrToInt(f.g1),
          card_data |-> [quantity |-> StrToInt(f.g1)]]
    ELSE NoMatch

CardFrom(m, line) ==
    IF m.matched THEN FullCard(m) ELSE FallbackCard(FallbackMatch(line))

\* the card a line holds: full pattern first, fallback pattern second
CardOf(line) == CardFrom(FullMatch(line), line)

\* one iteration of the loop over the lines
ParseLine ==
    /\ pc = "text"
    /\ idx <= Len(lines)
    /\ LET line == Strip(lines[idx])
           card == CardOf(line)
       IN  IF IsSkipped(line)
           THEN UNCHANGED <<deck, current_section, parsed>>
           ELSE IF IsSideboardMarker(line)
           THEN /\ current_section' = "sideboard"
                /\ UNCHANGED <<deck, parsed>>
           ELSE IF card.matched
           THEN /\ deck' = [deck EXCEPT ![current_section] =
                              MergeCard(@, card.card_name, card.quantity,
                                        card.card_data)]
                /\ parsed' = Append(parsed,
                                    [at |-> idx, section |-> current_section,
                                     pattern |-> card.pattern,
                                     card_name |-> card.card_name,
                                     quantity |-> card.quantity,
                                     card_data |-> card.card_data])
                /\ UNCHANGED current_section
           ELSE UNCHANGED <<deck, current_section, parsed>>
    /\ idx' = idx + 1
    /\ UNCHANGED <<inputVars, pc, moxfield_data, deck_type, lines, convertVars,
                   ioVars>>

\* the loop is over: return deck
ParseReturn ==
    /\ pc = "text"
    /\ idx > Len(lines)
    /\ deck_type' = "dict"
    /\ pc' = AfterParse
    /\ UNCHANGED <<inputVars, moxfield_data, deck, parseVars, convertVars, ioVars>>

(***************************************************************************)
(* main: the --name override                                               *)
(***************************************************************************)
\* if args.name: deck['name'] = args.name  (item assignment raises TypeError
\* when the deck is not a dict)
OverrideName ==
    /\ pc = "override"
    /\ \E name \in NameOptions :
         /\ args_name' = name
         /\ IF name = <<>>
            THEN /\ pc' = "convert"
                 /\ UNCHANGED <<deck, ioVars>>
            ELSE IF deck_type # "dict"
            THEN /\ Except("TypeError")
                 /\ UNCHANGED <<deck, output_file>>
            ELSE /\ deck' = [k \in DOMAIN deck \cup {"name"} |->
                                IF k = "name" THEN name ELSE deck[k]]
                 /\ pc' = "convert"
                 /\ UNCHANGED ioVars
    /\ UNCHANGED <<entry, moxfield_data, deck_type, parseVars, convertVars>>

(***************************************************************************)
(* convert_to_forge_format                                                 *)
(***************************************************************************)
\* dict.get(key, default)
DictGet(d, key, default) == IF key \in DOMAIN d THEN d[key] ELSE default

\* Mutant of normalize_set_code_for_forge: the length test is missing.
normalize_set_code_AnyLength(set_code) ==
    IF StartsWith(set_code, <<"P">>) THEN Tail(set_code) ELSE set_code

normalize_set_code_for_forge(set_code) ==
    IF Len(set_code) = 4 /\ StartsWith(set_code, <<"P">>)
    THEN Tail(set_code)
    ELSE set_code

is_basic_land(card_name) == card_name \in basic_lands

\* sum(card['quantity'] for card in group.values())
RECURSIVE SumQuantities(_)
SumQuantities(group) ==
    IF group = <<>> THEN 0
    ELSE group[1].data.quantity + SumQuantities(Tail(group))

\* the loop that looks for a card breaking the singleton rule
RECURSIVE SingletonViolation(_)
SingletonViolation(group) ==
    IF group = <<>> THEN FALSE
    ELSE IF DictGet(group[1].data, "quantity", 1) > 1
            /\ ~is_basic_land(group[1].name)
    THEN TRUE
    ELSE SingletonViolation(Tail(group))

\* Mutant of CommanderCheck: the singleton scan covers the sideboard too.
CommanderCheck_ScansSideboard(mainboard, sideboard) ==
    IF SumQuantities(mainboard) + SumQuantities(sideboard) = CommanderDeckSize
    THEN ~SingletonViolation(mainboard \o sideboard)
    ELSE FALSE

\* is_commander_deck as computed from total_cards and the singleton scan
CommanderCheck(mainboard, sideboard) ==
    IF SumQuantities(mainboard) + SumQuantities(sideboard) = CommanderDeckSize
    THEN ~SingletonViolation(mainboard)
    ELSE FALSE

\* re.sub(r' \/ .+$', '', card_name): the leftmost " / " that has at least
\* one character after it is removed together with everything after it
StripSplitSuffix(card_name) ==
    LET C == {i \in 1..(Len(card_name) - 3) :
                 /\ SubSeq(card_name, i, i + 2) = <<" ","/"," ">>
                 /\ \A k \in (i + 3)..Len(card_name) : card_name[k] # NL}
    IN  IF C = {} THEN card_name
        ELSE SubSeq(card_name, 1, (CHOOSE i \in C : \A v \in C : i <= v) - 1)

\* the card line built from a name and the card's data
CardLine(name, card_data) ==
    LET quantity         == DictGet(card_data, "quantity", 1)
        set_code         == DictGet(card_data, "set", <<>>)
        collector_number == DictGet(card_data, "collector_number", <<>>)
        special_markers  == DictGet(card_data, "special_markers", <<>>)
    IN  IntToStr(quantity) \o <<" ">> \o name
        \o (IF set_code # <<>>
            THEN <<"|">> \o normalize_set_code_for_forge(set_code)
                 \o (IF collector_number # <<>>
                     THEN <<"|","[">> \o collector_number \o <<"]">>
                     ELSE <<>>)
            ELSE <<>>)
        \o (IF special_markers # <<>>
            THEN <<" ">> \o special_markers
            ELSE <<>>)

\* mainboard_cards: the split-card suffix is stripped from the name
MainboardCards(mainboard) ==
    [i \in 1..Len(mainboard) |->
        CardLine(StripSplitSuffix(mainboard[i].name), mainboard[i].data)]

\* the sideboard lines: the name is used as stored
SideboardCards(sideboard) ==
    [i \in 1..Len(sideboard) |-> CardLine(sideboard[i].name, sideboard[i].data)]

\* Mutant of MainSections: the commander line is repeated in [Main].
MainSections_CommanderStaysInMain(commander, mainboard_cards) ==
    IF commander /\ mainboard_cards # <<>>
    THEN <<CommanderHeader, mainboard_cards[1], MainHeader>> \o mainboard_cards
    ELSE <<MainHeader>> \o mainboard_cards

\* the [Commander] / [Main] layout
MainSections(commander, mainboard_cards) ==
    IF commander /\ mainboard_cards # <<>>
    THEN <<CommanderHeader, mainboard_cards[1], MainHeader>>
         \o Tail(mainboard_cards)
    ELSE <<MainHeader>> \o mainboard_cards

\* the list forge_deck at the return statement
ForgeDeck(d) ==
    LET mainboard == DictGet(d, "mainboard", <<>>)
        sideboard == DictGet(d, "sideboard", <<>>)
    IN  <<MetadataHeader, NamePrefix \o DictGet(d, "name", DefaultDeckName)>>
        \o MainSections(CommanderCheck(mainboard, sideboard),
                        MainboardCards(mainboard))
        \o (IF sideboard # <<>>
            THEN <<SideboardHeader>> \o SideboardCards(sideboard)
            ELSE <<>>)

\* card['quantity'] is defined for every card of the group
HasQuantities(group) ==
    \A i \in 1..Len(group) : "quantity" \in DOMAIN group[i].data

\* convert_to_forge_format(deck): moxfield_deck.get raises AttributeError
\* when the deck is not a dict, and card['quantity'] raises KeyError when a
\* card has no quantity
Convert ==
    /\ pc = "convert"
    /\ IF deck_type # "dict"
       THEN /\ Except("AttributeError")
            /\ UNCHANGED <<convertVars, output_file>>
       ELSE IF ~(/\ HasQuantities(DictGet(deck, "mainboard", <<>>))
                 /\ HasQuantities(DictGet(deck, "sideboard", <<>>)))
       THEN /\ Except("KeyError")
            /\ UNCHANGED <<convertVars, output_file>>
       ELSE /\ forge_deck' = ForgeDeck(deck)
            /\ is_commander_deck' =
                   CommanderCheck(DictGet(deck, "mainboard", <<>>),
                                  DictGet(deck, "sideboard", <<>>))
            /\ pc' = "write"
            /\ UNCHANGED ioVars
    /\ UNCHANGED <<inputVars, moxfield_data, deck_type, deck, parseVars>>

(***************************************************************************)
(* Writing the output file and reporting                                   *)
(***************************************************************************)
\* open(output_file, 'w') or f.write fails
WriteFails ==
    /\ pc = "write"
    /\ Except("OSError")
    /\ UNCHANGED <<inputVars, moxfield_data, deck_type, deck, parseVars,
                   convertVars, output_file>>

\* f.write('\n'.join(forge_deck))
WriteOutput ==
    /\ pc = "write"
    /\ output_file' = [written |-> TRUE, content |-> JoinLines(forge_deck)]
    /\ pc' = "report"
    /\ UNCHANGED <<inputVars, moxfield_data, deck_type, deck, parseVars,
                   convertVars, stdout, stderr, raised, exit_status>>

\* print("Successfully converted ..."); convert_moxfield_to_forge then returns
ReportSuccess ==
    /\ pc = "report"
    /\ stdout' = Append(stdout, Msg("success", 0, 0))
    /\ IF entry = "main"
       THEN /\ pc' = "stats"
            /\ UNCHANGED exit_status
       ELSE /\ pc' = "done"
            /\ exit_status' = "returned"
    /\ UNCHANGED <<inputVars, moxfield_data, deck_type, deck, parseVars,
                   convertVars, output_file, stderr, raised>>

\* the statistics main prints after the confirmation
DeckStatistics(d) ==
    LET mainboard       == DictGet(d, "mainboard", <<>>)
        sideboard       == DictGet(d, "sideboard", <<>>)
        mainboard_count == SumQuantities(mainboard)
        sideboard_count == SumQuantities(sideboard)
        total_cards     == mainboard_count + sideboard_count
    IN  (IF total_cards = CommanderDeckSize /\ ~SingletonViolation(mainboard)
         THEN << Msg("format_commander", 0, 0),
                 Msg("commander", 1, 1),
                 Msg("main_deck", Len(mainboard) - 1, mainboard_count - 1) >>
         ELSE << Msg("mainboard", Len(mainboard), mainboard_count) >>)
        \o (IF sideboard # <<>>
            THEN << Msg("sideboard", Len(sideboard), sideboard_count) >>
            ELSE <<>>)

\* main prints the statistics and returns: the process exits with status 0
PrintStatistics ==
    /\ pc = "stats"
    /\ stdout' = stdout \o <<Msg("statistics", 0, 0)>> \o DeckStatistics(deck)
    /\ pc' = "done"
    /\ exit_status' = "exit0"
    /\ UNCHANGED <<inputVars, moxfield_data, deck_type, deck, parseVars,
                   convertVars, output_file, stderr, raised>>

(***************************************************************************)
(* Specification                                                           *)
(***************************************************************************)
Next ==
    \/ ReadMissing
    \/ ReadFails
    \/ ReadInput
    \/ ReadStructured
    \/ ParseJson
    \/ ParseTextStart
    \/ ParseLine
    \/ ParseReturn
    \/ OverrideName
    \/ Convert
    \/ WriteFails
    \/ WriteOutput
    \/ ReportSuccess
    \/ PrintStatistics

Spec == Init /\ [][Next]_vars

(***************************************************************************)
(* Reading the state back: helpers of the properties                       *)
(***************************************************************************)
Groups == {"mainboard", "sideboard"}

\* the entries of a group of a deck, none when the deck has no such group
GroupOf(d, g) == IF g \in DOMAIN d THEN d[g] ELSE <<>>

RECURSIVE SeqSum(_)
SeqSum(q) == IF q = <<>> THEN 0 ELSE q[Len(q)] + SeqSum(SubSeq(q, 1, Len(q) - 1))

Quantities(group) == [i \in 1..Len(group) |-> group[i].data.quantity]

\* the lines of the written output file
OutLines == SplitLines(output_file.content)

HeaderLines == {MetadataHeader, CommanderHeader, MainHeader, SideboardHeader}

HasSection(out, header) == \E i \in 1..Len(out) : out[i] = header

\* the lines between a section header and the next header (or the end)
SectionOf(out, header) ==
    LET H == {i \in 1..Len(out) : out[i] = header}
    IN  IF H = {} THEN <<>>
        ELSE LET h == CHOOSE i \in H : \A v \in H : i <= v
                 N == {j \in (h + 1)..Len(out) : out[j] \in HeaderLines}
                 e == IF N = {} THEN Len(out)
                      ELSE (CHOOSE j \in N : \A v \in N : j <= v) - 1
             IN  SubSeq(out, h + 1, e)

\* the integer an output line starts with
LeadingQuantity(line) == StrToInt(SubSeq(line, 1, DigitPrefixLen(line)))

LeadingQuantities(ls) == [i \in 1..Len(ls) |-> LeadingQuantity(ls[i])]

\* positions in the history of the card lines of a group with a given name
LinesOf(g, n) ==
    {k \in 1..Len(parsed) : parsed[k].section = g /\ parsed[k].card_name = n}

\* sum of the quantities of the history records at the positions K
RECURSIVE ParsedQuantity(_)
ParsedQuantity(K) ==
    IF K = {} THEN 0
    ELSE LET k == CHOOSE x \in K : TRUE
         IN  parsed[k].quantity + ParsedQuantity(K \ {k})

\* the singleton-format rule as the specification states it
SpecSingleton(d) ==
    /\ SeqSum(Quantities(GroupOf(d, "mainboard")))
         + SeqSum(Quantities(GroupOf(d, "sideboard"))) = 100
    /\ \A i \in 1..Len(GroupOf(d, "mainboard")) :
          d.mainboard[i].data.quantity > 1 =>
             d.mainboard[i].name \in
                { <<"P","l","a","i","n","s">>, <<"I","s","l","a","n","d">>,
                  <<"S","w","a","m","p">>, <<"M","o","u","n","t","a","i","n">>,
                  <<"F","o","r","e","s","t">> }

\* trimmed, case-insensitive content is "sideboard" or "side board"
SpecMarker(line) ==
    Lower(Strip(line)) \in { <<"s","i","d","e","b","o","a","r","d">>,
                             <<"s","i","d","e"," ","b","o","a","r","d">> }

\* convert_to_forge_format has returned
Converted == forge_deck # <<>>

\* the deck is the one parse_moxfield_text builds from a line-oriented input
FromText == lines # <<>>

\* parse_moxfield_text is in its loop, or has just returned the deck
InParser == pc = "text"

ParserReturned == FromText /\ pc = AfterParse

\* the output file has just been written; nothing changes it afterwards
JustWritten == output_file.written /\ pc = "report"

(***************************************************************************)
(* Properties                                                              *)
(***************************************************************************)
\* C1: once convert_to_forge_format has classified a deck, is_commander_deck
\* is true exactly when mainboard plus sideboard quantities total 100 and no
\* mainboard entry other than the five basic lands has quantity > 1; the
\* sideboard is not scanned, and totals of 99 or 101 are never singleton.
C1_Classification ==
    Converted => (is_commander_deck <=> SpecSingleton(deck))

\* C1 witness: a deck classified singleton-format whose mainboard alone is
\* below 100 and whose sideboard holds an entry with quantity > 1.
C1_Witness ==
    /\ Converted
    /\ is_commander_deck
    /\ GroupOf(deck, "mainboard") # <<>>
    /\ \E i \in 1..Len(GroupOf(deck, "sideboard")) :
          deck.sideboard[i].data.quantity > 1

\* C2: the written output has a [Commander] section exactly when the deck is
\* singleton-format and the mainboard is not empty; then [Commander] holds
\* the one line of the first mainboard entry and [Main] the lines of the
\* other entries in insertion order; otherwise [Main] holds all the lines.
C2_SectionLayout ==
    JustWritten =>
        LET out   == OutLines
            cards == MainboardCards(GroupOf(deck, "mainboard"))
        IN  /\ HasSection(out, CommanderHeader)
                 <=> (SpecSingleton(deck) /\ Len(GroupOf(deck, "mainboard")) >= 1)
            /\ Cardinality({i \in 1..Len(out) : out[i] = MainHeader}) = 1
            /\ IF HasSection(out, CommanderHeader)
               THEN /\ SectionOf(out, CommanderHeader) = <<cards[1]>>
                    /\ SectionOf(out, MainHeader) = Tail(cards)
               ELSE SectionOf(out, MainHeader) = cards

\* C2 witness: a written file with a [Commander] section and further
\* mainboard entries in [Main].
C2_Witness ==
    /\ JustWritten
    /\ HasSection(OutLines, CommanderHeader)
    /\ Len(GroupOf(deck, "mainboard")) >= 2

\* C3: in each group every card name has one entry; its quantity is the sum
\* of the quantities of all card lines of that name parsed into the group,
\* under either pattern, and its set code, collector number and markers are
\* those of the first such line; every parsed card line has its entry.
C3_MergeDuplicates ==
    (InParser \/ ParserReturned) =>
    /\ \A g \in Groups :
         LET group == deck[g]
         IN  /\ \A i, j \in 1..Len(group) :
                    group[i].name = group[j].name => i = j
             /\ \A i \in 1..Len(group) :
                    LET K     == LinesOf(g, group[i].name)
                        first == parsed[CHOOSE k \in K : \A v \in K : k <= v]
                    IN  /\ K # {}
                        /\ group[i].data.quantity = ParsedQuantity(K)
                        /\ DOMAIN group[i].data = DOMAIN first.card_data
                        /\ \A f \in DOMAIN first.card_data \ {"quantity"} :
                               group[i].data[f] = first.card_data[f]
    /\ \A k \in 1..Len(parsed) :
         \E i \in 1..Len(deck[parsed[k].section]) :
             deck[parsed[k].section][i].name = parsed[k].card_name

\* C3 witness: a name first seen on a fallback line and seen again on a line
\* of the full pattern, whose metadata is discarded.
C3_Witness ==
    \E k1, k2 \in 1..Len(parsed) :
        /\ k1 < k2
        /\ parsed[k1].section = parsed[k2].section
        /\ parsed[k1].card_name = parsed[k2].card_name
        /\ parsed[k1].pattern = "fallback"
        /\ parsed[k2].pattern = "full"

\* C4: for a line-oriented input, every entry recorded in mainboard or
\* sideboard has quantity >= 1.
C4_QuantityAtLeastOne ==
    FromText =>
        \A g \in Groups :
            \A i \in 1..Len(deck[g]) : deck[g][i].data.quantity >= 1

\* C5: for a line-oriented input, the leading quantities of the lines written in [Commander] and [Main]
\* sum to the quantities of all card lines parsed into the mainboard.
C5_LosslessAggregation ==
    (FromText /\ JustWritten) =>
        LET out == OutLines
        IN  SeqSum(LeadingQuantities(SectionOf(out, CommanderHeader)
                                     \o SectionOf(out, MainHeader)))
            = ParsedQuantity({k \in 1..Len(parsed) :
                                 parsed[k].section = "mainboard"})

\* C5 witness: a written file whose mainboard merged a repeated name and
\* holds a split card.
C5_Witness ==
    /\ FromText
    /\ JustWritten
    /\ \E k1, k2 \in 1..Len(parsed) :
          /\ k1 < k2
          /\ parsed[k1].section = "mainboard"
          /\ parsed[k2].section = "mainboard"
          /\ parsed[k1].card_name = parsed[k2].card_name
    /\ \E i \in 1..Len(deck.mainboard) :
          StripSplitSuffix(deck.mainboard[i].name) # deck.mainboard[i].name

\* C6: the active group is mainboard until the first marker line and
\* sideboard from then on; every card line is merged into the group that is
\* active at its position, and into that group only; a marker line adds no
\* entry.
C6_SectionSwitch ==
    LET Markers    == {j \in 1..Len(lines) : SpecMarker(lines[j])}
        GroupAt(n) == IF \E j \in Markers : j < n THEN "sideboard"
                      ELSE "mainboard"
    IN  /\ InParser => current_section = GroupAt(idx)
        /\ (InParser \/ ParserReturned) =>
              /\ \A k \in 1..Len(parsed) :
                    /\ parsed[k].section = GroupAt(parsed[k].at)
                    /\ parsed[k].at \notin Markers
              /\ \A g \in Groups :
                    {deck[g][i].name : i \in 1..Len(deck[g])}
                    = {parsed[k].card_name :
                          k \in {x \in 1..Len(parsed) : GroupAt(parsed[x].at) = g}}
        /\ ParserReturned =>
              \A j \in 1..Len(lines) :
                  (j \notin Markers /\ ~IsSkipped(Strip(lines[j]))
                     /\ CardOf(Strip(lines[j])).matched)
                  => \E k \in 1..Len(parsed) : parsed[k].at = j

\* C6 witness: the parser has returned and card lines were merged on both
\* sides of a marker line.
C6_Witness ==
    /\ ParserReturned
    /\ deck.mainboard # <<>>
    /\ deck.sideboard # <<>>
    /\ \E j \in 1..Len(lines) : SpecMarker(lines[j])

\* the positions at which a name holds " / "
Separators(n) == {i \in 1..(Len(n) - 2) : SubSeq(n, i, i + 2) = <<" ","/"," ">>}

\* the text of a name before its first " / "
BeforeFirstSeparator(n) ==
    SubSeq(n, 1, (CHOOSE i \in Separators(n) : \A v \in Separators(n) : i <= v) - 1)

\* the name as the specification renders it: a mainboard name that contains
\* " / " is cut before the first one
SpecName(n, in_mainboard) ==
    IF in_mainboard /\ Separators(n) # {} THEN BeforeFirstSeparator(n) ELSE n

\* the name as rendered when the cut needs a character after the " / "
SpecNameWithSuffix(n, in_mainboard) ==
    IF in_mainboard /\ (\E i \in Separators(n) : i + 2 < Len(n))
    THEN BeforeFirstSeparator(n)
    ELSE n

\* the card line as the specification describes it, for a rendered name nm:
\* <qty> <name>[|<setCode>[|[<collectorNumber>]]][ <specialMarkers>]
SpecCardLine(nm, d) ==
    LET has_set   == "set" \in DOMAIN d /\ d.set # <<>>
        has_coll  == "collector_number" \in DOMAIN d /\ d.collector_number # <<>>
        has_marks == "special_markers" \in DOMAIN d /\ d.special_markers # <<>>
    IN  IntToStr(d.quantity) \o <<" ">> \o nm
        \o (IF has_set
            THEN <<"|">> \o (IF Len(d.set) = 4 /\ d.set[1] = "P"
                             THEN SubSeq(d.set, 2, 4)
                             ELSE d.set)
            ELSE <<>>)
        \o (IF has_set /\ has_coll
            THEN <<"|","[">> \o d.collector_number \o <<"]">>
            ELSE <<>>)
        \o (IF has_marks THEN <<" ">> \o d.special_markers ELSE <<>>)

HasMessage(stream, k) == \E i \in 1..Len(stream) : stream[i].kind = k

\* C8: in main a missing input file and any other failure of the read, the
\* parse, the rendering or the write is reported on stderr and ends the
\* process with a non-zero status; the confirmation is printed only once
\* the output file is written; convert_moxfield_to_forge prints a message
\* for a missing input file and returns without exiting.
C8_FailureOutcome ==
    /\ (entry = "main" /\ raised # "") =>
          /\ exit_status = "exit1"
          /\ stderr = << IF raised = "FileNotFoundError"
                         THEN Msg("error_not_found", 0, 0)
                         ELSE Msg("error_conversion", 0, 0) >>
          /\ ~HasMessage(stdout, "success")
    /\ HasMessage(stdout, "success") => output_file.written
    /\ (entry = "lib" /\ raised = "FileNotFoundError") =>
          /\ stdout = << Msg("error_not_found", 0, 0) >>
          /\ exit_status = "returned"

\* C8 witness: main fails to write the rendered deck and exits with status 1.
C8_Witness ==
    /\ entry = "main"
    /\ raised = "OSError"
    /\ Converted
    /\ exit_status = "exit1"

\* a line that is not blank, not a comment, not a marker and that neither
\* pattern matches
Unparseable(line) ==
    LET t == Strip(line)
    IN  /\ t # <<>>
        /\ ~StartsWith(t, <<"/","/">>)
        /\ ~SpecMarker(t)
        /\ ~FullMatch(t).matched
        /\ ~FallbackMatch(t).matched

\* C9: for every input text that is not a structured deck, a line no pattern
\* matches raises no error and adds no entry, and the conversion completes.
C9_BestEffortParsing ==
    (/\ pc = "done"
     /\ raised \notin {"FileNotFoundError", "OSError"}
     /\ JsonLoads(moxfield_data) # "dict"
     /\ \E j \in 1..Len(SplitLines(moxfield_data)) :
            Unparseable(SplitLines(moxfield_data)[j]))
    => /\ raised = ""
       /\ output_file.written
       /\ \A k \in 1..Len(parsed) : ~Unparseable(lines[parsed[k].at])

\* C10: the statistics main prints agree with the file it wrote: the
\* Commander format is reported exactly when the file has a [Commander]
\* section, the commander count of 1 is the quantity on the [Commander]
\* line, and the main-deck counts are the number of lines and the sum of
\* the quantities of [Main], never negative.
C10_StatisticsAgree ==
    (entry = "main" /\ exit_status = "exit0") =>
        LET out  == OutLines
            cmd  == SectionOf(out, CommanderHeader)
            main == SectionOf(out, MainHeader)
            S    == {i \in 1..Len(stdout) : stdout[i].kind = "main_deck"}
        IN  /\ HasMessage(stdout, "format_commander")
                 <=> HasSection(out, CommanderHeader)
            /\ HasMessage(stdout, "format_commander") =>
                  /\ Len(cmd) = 1
                  /\ LeadingQuantity(cmd[1]) = 1
                  /\ \A i \in S :
                        /\ stdout[i].a = Len(main)
                        /\ stdout[i].b = SeqSum(LeadingQuantities(main))
                        /\ stdout[i].a >= 0
                        /\ stdout[i].b >= 0

====
